---- MODULE Spec2Model ----
(***************************************************************************)
(* Model of the NCCH container decoder, src/core/ncch/ncch_container.cpp:  *)
(* NCCHContainer::OpenFile, Load, LoadSectionExeFS, ReadProgramId,         *)
(* ReadExtdataId, HasExeFS, HasExHeader.                                   *)
(*                                                                         *)
(* Every public method is one atomic action (the decoder is single         *)
(* threaded and synchronous).  An accessor action contains the Load() the  *)
(* method starts with.  Besides the object's fields the model keeps, for   *)
(* the last method executed, its name, its result, its output argument and *)
(* the calls it made on the byte source, the key store and the cipher.     *)
(*                                                                         *)
(* Abstractions.  A file is described by what the reads of the decoder     *)
(* see: the outer header fields, the raw extended header, the raw ExeFS    *)
(* header and the raw ExeFS payload.  A structure is kept as the cells     *)
(* (fields) the code looks at, each a byte value at its stream offset.     *)
(* AES-CTR (CryptoPP) is a keystream KS(key, ctr, offset) combined with    *)
(* the data by XOR.  32-bit unsigned arithmetic keeps its width: values    *)
(* that may exceed 2^31 are pairs <<q, r>> standing for q * 2^16 + r.      *)
(***************************************************************************)
EXTENDS Integers, Sequences, FiniteSets, TLC

(* ---------------------------- bounds ----------------------------------- *)
\* partition identifiers used: seeds 0..MaxPidSeed
MaxPidSeed == 1
\* number of payload bytes following the ExeFS header in a complete file
PayloadLen == 3
\* section names requested by callers: 0 (the empty name) .. MaxName
MaxName == 3
\* values of the storage-info attribute byte used: 0..MaxAttr
MaxAttr == 4
\* sizes of level 2 of the RomFS images: 0..MaxRomFsSize
MaxRomFsSize == 2
\* the number of bytes at the start of a buffer whose values are kept; every
\* file of the model that is not sparse is shorter
MaxTracked == 4096

(* ------------------------ program constants ---------------------------- *)
kMaxSections == 8
kBlockSize == 512
SizeofNCCHHeader == 512
SizeofExeFsHeader == 512
SizeofExHeader == 2048
\* line 321: sizeof(RomFSIVFCHeader); line 334: the IVFC version accepted
SizeofIVFCHeader == 96
IVFCVersion == 65536

(* ------------------ wide (more than 31 bit) numbers -------------------- *)
Limb == 65536

WNorm(a) == <<a[1] + (a[2] \div Limb), a[2] % Limb>>

WFromInt(n) == <<n \div Limb, n % Limb>>

WAdd(a, b) == WNorm(<<a[1] + b[1], a[2] + b[2]>>)

\* the exact product of a 32-bit value x and a factor k <= 2^15
WMul(x, k) == WNorm(<<(x \div Limb) * k, (x % Limb) * k>>)

\* reduction modulo 2^32: what a u32 holds
Wrap32(a) == <<a[1] % Limb, a[2]>>

\* u32 * int evaluated in unsigned 32-bit arithmetic
U32Mul(x, k) == Wrap32(WMul(x, k))

\* u32 + u32 evaluated in unsigned 32-bit arithmetic
U32Add(a, b) == Wrap32(WAdd(a, b))

NoOffset == <<-1, -1>>

\* a <= b, and the value of a wide number below 2^31
WLeq(a, b) == a[1] < b[1] \/ (a[1] = b[1] /\ a[2] <= b[2])

WInt(a) == a[1] * Limb + a[2]

\* a - b for wide numbers with a >= b
WSub(a, b) == WNorm(<<a[1] - b[1], a[2] - b[2]>>)

(* ----------------------------- bytes ----------------------------------- *)
RECURSIVE XorBits(_, _, _)
XorBits(a, b, n) ==
    IF n = 0 THEN 0
    ELSE ((a + b) % 2) + 2 * XorBits(a \div 2, b \div 2, n - 1)

Xor(a, b) == XorBits(a, b, 8)

RECURSIVE CtrDigest(_, _)
CtrDigest(ctr, i) ==
    IF i = 0 THEN 0 ELSE (ctr[i] * (2 * i + 1) + CtrDigest(ctr, i - 1)) % 256

\* keystream byte of AES-CTR at a byte offset of the stream
KS(key, ctr, off) == (key * 31 + CtrDigest(ctr, 16) + 7 * off + 13) % 256

\* CTR_Mode<AES>::Decryption(key, ctr) positioned at off, ProcessData on one cell
Crypt(key, ctr, off, byte) == Xor(byte, KS(key, ctr, off))

ZeroCtr == [i \in 1..16 |-> 0]

(* --------------------------- structures -------------------------------- *)
MakeMagic(a, b, c, d) == a + b * 256 + c * 65536 + d * 16777216

NCCHMagic == MakeMagic(78, 67, 67, 72)

\* byte offsets, inside ExHeader_Header, of the fields the decoder reads
ExhOff ==
    [jump_id |-> 456, ext_save_data_id |-> 560,
     extdata |-> 576, other_attributes |-> 591]

\* byte offsets, inside NCCH_Header, of the fields the decoder reads
NcchOff ==
    [magic |-> 256, partition_id |-> 264, version |-> 274, program_id |-> 280,
     extended_header_size |-> 384, crypto_flags |-> 399, exefs_offset |-> 416,
     exefs_size |-> 420]

\* byte offsets, inside one 16-byte ExeFs_SectionHeader, of its fields
SecOff == [name |-> 0, offset |-> 8, size |-> 12]

\* ProcessData over a whole ExHeader_Header from keystream offset 0
CryptExHeader(key, ctr, e) ==
    [jump_id |->
        [i \in 1..8 |-> Crypt(key, ctr, ExhOff.jump_id + (i - 1), e.jump_id[i])],
     ext_save_data_id |->
        [i \in 1..8 |->
            Crypt(key, ctr, ExhOff.ext_save_data_id + (i - 1), e.ext_save_data_id[i])],
     extdata_ids |->
        [i \in 1..6 |-> Crypt(key, ctr, ExhOff.extdata + (i - 1), e.extdata_ids[i])],
     other_attributes |-> Crypt(key, ctr, ExhOff.other_attributes, e.other_attributes)]

\* ProcessData over a whole ExeFs_Header from keystream offset 0
CryptExeFsHeader(key, ctr, dir) ==
    [j \in 1..kMaxSections |->
        [name   |-> [i \in 1..8 |->
                        Crypt(key, ctr, 16 * (j - 1) + SecOff.name + (i - 1),
                              dir[j].name[i])],
         offset |-> [i \in 1..4 |->
                        Crypt(key, ctr, 16 * (j - 1) + SecOff.offset + (i - 1),
                              dir[j].offset[i])],
         size   |-> [i \in 1..4 |->
                        Crypt(key, ctr, 16 * (j - 1) + SecOff.size + (i - 1),
                              dir[j].size[i])]]]

\* dec.Seek(pos); dec.ProcessData(buffer) over a byte buffer; pos is a wide
\* number, and since KS depends on the position modulo 256 only and Limb is
\* a multiple of 256, the low limb of the position stands for it
CryptBuffer(key, ctr, pos, buf) ==
    [i \in 1..Len(buf) |->
        Crypt(key, ctr, WAdd(pos, WFromInt(i - 1))[2], buf[i])]

\* the four bytes of a u32_le field, and the value they hold
LE4(n) == <<n % 256, (n \div 256) % 256, (n \div 65536) % 256, n \div 16777216>>

U32LE(b) == <<b[4] * 256 + b[3], b[2] * 256 + b[1]>>

\* the eight bytes of a u64 field that holds n < 2^31, and the two halves of
\* the value eight bytes hold
LE8(n) == LE4(n) \o <<0, 0, 0, 0>>

U64Lo(b) == U32LE(<<b[1], b[2], b[3], b[4]>>)

U64Hi(b) == U32LE(<<b[5], b[6], b[7], b[8]>>)

\* a name passed by a caller: the empty string, or the one-character string
\* of character n; and the char[8] field that holds it, padded with NUL
CStr(n) == IF n = 0 THEN <<>> ELSE <<n>>

Name8(n) == [i \in 1..8 |-> IF i = 1 THEN n ELSE 0]

\* strcmp(field, s) == 0 for a string s shorter than the field
StrcmpEqual(field, s) ==
    /\ \A i \in 1..Len(s) : field[i] = s[i]
    /\ field[Len(s) + 1] = 0

\* an ExeFs_SectionHeader: char name[8]; u32_le offset; u32_le size
SectionOf(name, offset, size) ==
    [name |-> Name8(name), offset |-> LE4(offset), size |-> LE4(size)]

NoSection == SectionOf(0, 0, 0)

EmptyExeFsHeader == [j \in 1..kMaxSections |-> NoSection]

ZeroExHeader ==
    [jump_id |-> [i \in 1..8 |-> 0], ext_save_data_id |-> [i \in 1..8 |-> 0],
     extdata_ids |-> [i \in 1..6 |-> 0], other_attributes |-> 0]

ZeroNCCHHeader ==
    [magic |-> 0, no_crypto |-> FALSE, fixed_key |-> FALSE, version |-> 0,
     partition_id |-> [i \in 1..8 |-> 0], program_id |-> [hi |-> 0, lo |-> 0],
     signature |-> 0, extended_header_size |-> 0, exefs_offset |-> 0,
     exefs_size |-> 0]

(* --------------------------- byte source ------------------------------- *)
\* A file: whether it can be opened, how much of it there is, and the raw (on
\* disk) content of its regions.  The NCCH header is at byte 0, the extended
\* header region behind it, the ExeFS header at the media unit the NCCH header
\* names, the payload behind that; every other byte is zero.
\*   hdr     : "short" for an empty file
\*   exh     : "short" for a file that ends after the NCCH header
\*   dir     : "short" for a file that ends after the extended header region
\*             and holds no ExeFS
\*   payload : the raw bytes that follow the ExeFS header
NoFile ==
    [open |-> FALSE, hdr |-> "short", exh |-> "short", dir |-> "short",
     header |-> ZeroNCCHHeader, exheader |-> ZeroExHeader,
     exefs |-> EmptyExeFsHeader, payload |-> <<>>]

\* the byte offset at which the file holds its ExeFS header
TrueExeFsOffset(f) == WMul(f.header.exefs_offset, kBlockSize)

\* the end of the ExeFS region of a file that holds one
ExeFsEnd(f) ==
    WAdd(TrueExeFsOffset(f), WFromInt(SizeofExeFsHeader + Len(f.payload)))

\* the length of the file
FileEnd(f) ==
    IF ~f.open \/ f.hdr # "full" THEN <<0, 0>>
    ELSE IF f.exh # "full" THEN WFromInt(SizeofNCCHHeader)
    ELSE IF f.dir # "full" \/ WLeq(ExeFsEnd(f), WFromInt(SizeofNCCHHeader + SizeofExHeader))
    THEN WFromInt(SizeofNCCHHeader + SizeofExHeader)
    ELSE ExeFsEnd(f)

\* byte q of a stored NCCH_Header
NCCHHeaderByte(h, q) ==
    IF q < 4 THEN LE4(h.signature)[q + 1]
    ELSE IF q >= NcchOff.magic /\ q < NcchOff.magic + 4
    THEN LE4(h.magic)[q - NcchOff.magic + 1]
    ELSE IF q >= NcchOff.partition_id /\ q < NcchOff.partition_id + 8
    THEN h.partition_id[q - NcchOff.partition_id + 1]
    ELSE IF q >= NcchOff.version /\ q < NcchOff.version + 2
    THEN LE4(h.version)[q - NcchOff.version + 1]
    ELSE IF q >= NcchOff.program_id /\ q < NcchOff.program_id + 4
    THEN LE4(h.program_id.lo)[q - NcchOff.program_id + 1]
    ELSE IF q >= NcchOff.program_id + 4 /\ q < NcchOff.program_id + 8
    THEN LE4(h.program_id.hi)[q - NcchOff.program_id - 3]
    ELSE IF q >= NcchOff.extended_header_size /\ q < NcchOff.extended_header_size + 4
    THEN LE4(h.extended_header_size)[q - NcchOff.extended_header_size + 1]
    ELSE IF q = NcchOff.crypto_flags
    THEN (IF h.fixed_key THEN 1 ELSE 0) + (IF h.no_crypto THEN 4 ELSE 0)
    ELSE IF q >= NcchOff.exefs_offset /\ q < NcchOff.exefs_offset + 4
    THEN LE4(h.exefs_offset)[q - NcchOff.exefs_offset + 1]
    ELSE IF q >= NcchOff.exefs_size /\ q < NcchOff.exefs_size + 4
    THEN LE4(h.exefs_size)[q - NcchOff.exefs_size + 1]
    ELSE 0

\* byte q of a stored ExHeader_Header
ExHeaderByte(e, q) ==
    IF q >= ExhOff.jump_id /\ q < ExhOff.jump_id + 8
    THEN e.jump_id[q - ExhOff.jump_id + 1]
    ELSE IF q >= ExhOff.ext_save_data_id /\ q < ExhOff.ext_save_data_id + 8
    THEN e.ext_save_data_id[q - ExhOff.ext_save_data_id + 1]
    ELSE IF q >= ExhOff.extdata /\ q < ExhOff.extdata + 6
    THEN e.extdata_ids[q - ExhOff.extdata + 1]
    ELSE IF q = ExhOff.other_attributes THEN e.other_attributes
    ELSE 0

\* byte q of a stored ExeFs_Header: the section headers, then zero bytes
ExeFsHeaderByte(dir, q) ==
    IF q >= 16 * kMaxSections THEN 0
    ELSE IF q % 16 < SecOff.offset THEN dir[(q \div 16) + 1].name[(q % 16) + 1]
    ELSE IF q % 16 < SecOff.size
    THEN dir[(q \div 16) + 1].offset[(q % 16) - SecOff.offset + 1]
    ELSE dir[(q \div 16) + 1].size[(q % 16) - SecOff.size + 1]

\* p lies in the ExeFS region of f
InExeFs(f, p) ==
    f.dir = "full" /\ WLeq(TrueExeFsOffset(f), p) /\ ~WLeq(ExeFsEnd(f), p)

\* the byte of file f at position p (a wide number) below FileEnd(f)
FileByte(f, p) ==
    IF ~WLeq(WFromInt(SizeofNCCHHeader), p) THEN NCCHHeaderByte(f.header, p[2])
    ELSE IF InExeFs(f, p) /\ WSub(p, TrueExeFsOffset(f))[2] >= SizeofExeFsHeader
    THEN f.payload[WSub(p, TrueExeFsOffset(f))[2] - SizeofExeFsHeader + 1]
    ELSE IF InExeFs(f, p)
    THEN ExeFsHeaderByte(f.exefs, WSub(p, TrueExeFsOffset(f))[2])
    ELSE IF ~WLeq(WFromInt(SizeofNCCHHeader + SizeofExHeader), p)
    THEN ExHeaderByte(f.exheader, p[2] - SizeofNCCHHeader)
    ELSE 0

\* Seek(off); ReadBytes(_, size): the number of bytes obtained; off and size
\* are wide numbers
ReadCount(f, off, size) ==
    IF ~f.open \/ WLeq(FileEnd(f), off) THEN <<0, 0>>
    ELSE IF WLeq(size, WSub(FileEnd(f), off)) THEN size
    ELSE WSub(FileEnd(f), off)

\* the number of bytes of a buffer of count bytes whose values are kept
Tracked(count) == IF WLeq(count, WFromInt(MaxTracked)) THEN count[2] ELSE MaxTracked

\* SDMCFile::ReadBytes(&ncch_header, sizeof(NCCH_Header)) after Seek(0)
ReadNCCHHeader(f) == [full |-> f.hdr = "full", data |-> f.header]

\* the ExHeader_Header that the bytes of f behind the NCCH header hold
ExHeaderAt(f) ==
    [jump_id |->
        [i \in 1..8 |->
            FileByte(f, WFromInt(SizeofNCCHHeader + ExhOff.jump_id + (i - 1)))],
     ext_save_data_id |->
        [i \in 1..8 |->
            FileByte(f, WFromInt(SizeofNCCHHeader + ExhOff.ext_save_data_id + (i - 1)))],
     extdata_ids |->
        [i \in 1..6 |->
            FileByte(f, WFromInt(SizeofNCCHHeader + ExhOff.extdata + (i - 1)))],
     other_attributes |->
        FileByte(f, WFromInt(SizeofNCCHHeader + ExhOff.other_attributes))]

\* SDMCFile::ReadBytes(&exheader_header, sizeof(exheader_header)) at 0x200;
\* a file that reaches beyond the NCCH header holds the whole region, and the
\* region holds f.exheader unless the ExeFS starts inside it
ReadExHeader(f) ==
    [full |-> f.exh = "full",
     data |-> IF f.dir = "full"
                 /\ ~WLeq(WFromInt(SizeofNCCHHeader + SizeofExHeader), TrueExeFsOffset(f))
              THEN ExHeaderAt(f)
              ELSE f.exheader]

\* byte q of the ExeFs_Header member after a read of count bytes at off into
\* a member that held old
ExeFsMemberByte(f, off, old, count, q) ==
    IF q < count THEN FileByte(f, WAdd(off, WFromInt(q))) ELSE ExeFsHeaderByte(old, q)

\* Seek(off); ReadBytes(&exefs_header, sizeof(ExeFs_Header)): the member after
\* the read of count bytes
ExeFsHeaderAt(f, off, old, count) ==
    [j \in 1..kMaxSections |->
        [name   |-> [i \in 1..8 |->
                        ExeFsMemberByte(f, off, old, count,
                                        16 * (j - 1) + SecOff.name + (i - 1))],
         offset |-> [i \in 1..4 |->
                        ExeFsMemberByte(f, off, old, count,
                                        16 * (j - 1) + SecOff.offset + (i - 1))],
         size   |-> [i \in 1..4 |->
                        ExeFsMemberByte(f, off, old, count,
                                        16 * (j - 1) + SecOff.size + (i - 1))]]]

\* Seek(off); ReadBytes(&exefs_header, sizeof(ExeFs_Header)); old is the
\* member before the read.  At the true offset of a file that holds an ExeFS
\* (behind the NCCH header) the bytes read are those of f.exefs
ReadExeFsHeader(f, off, old) ==
    IF f.open /\ f.hdr = "full" /\ f.exh = "full" /\ f.dir = "full"
       /\ off = TrueExeFsOffset(f) /\ WLeq(WFromInt(SizeofNCCHHeader), off)
    THEN [full |-> TRUE, data |-> f.exefs]
    ELSE [full |-> ReadCount(f, off, WFromInt(SizeofExeFsHeader))
                      = WFromInt(SizeofExeFsHeader),
          data |-> ExeFsHeaderAt(f, off, old,
                                 ReadCount(f, off, WFromInt(SizeofExeFsHeader))[2])]

\* Seek(off); ReadBytes(&buffer[0], size): the bytes obtained, as far as
\* their values are kept; off and size are wide numbers
ReadPayload(f, off, size) ==
    [i \in 1..Tracked(ReadCount(f, off, size)) |->
        FileByte(f, WAdd(off, WFromInt(i - 1)))]

(* ---------------------------- key store -------------------------------- *)
\* The key store (core/key): k.avail is whether the Secure1 KeyX is known,
\* k.keyY the KeyY last set on the slot.
SetKeyY(k, y) == [k EXCEPT !.keyY = y]

IsNormalKeyAvailable(k) == k.avail

GetNormalKey(k) == IF k.avail THEN (k.keyY * 3 + 1) % 256 ELSE 0

(* ------------------------- calls of one method ------------------------- *)
\* io: calls on the byte source; key: calls on the key store; ctr: whether
\* the two counters were written; cipher: the structures passed through the
\* cipher; seekExefs / seekSection: the offsets sought; ksSeek: dec.Seek
NoCalls ==
    [io |-> <<>>, key |-> <<>>, ctr |-> FALSE, cipher |-> <<>>,
     seekExefs |-> NoOffset, seekSection |-> NoOffset, ksSeek |-> NoOffset]

(* --------------------------- Load, step 2 ------------------------------ *)
\* lines 71-86: the primary key
FindPrimaryKey(h, k) ==
    IF h.fixed_key
    THEN [primary_key |-> 0, keys |-> k, failed |-> FALSE, calls |-> <<>>]
    ELSE LET k1 == SetKeyY(k, h.signature)
         IN  [primary_key |-> GetNormalKey(k1), keys |-> k1,
              failed |-> ~IsNormalKeyAvailable(k1),
              calls |-> <<"SetKeyY", "IsNormalKeyAvailable", "GetNormalKey">>]

(* --------------------------- Load, step 3 ------------------------------ *)
\* std::reverse_copy(partition_id, partition_id + 8, ctr.begin())
ReverseCopy8(pid, ctr) == [i \in 1..16 |-> IF i <= 8 THEN pid[9 - i] ELSE ctr[i]]

\* std::copy(partition_id, partition_id + 8, ctr.begin())
Copy8(pid, ctr) == [i \in 1..16 |-> IF i <= 8 THEN pid[i] ELSE ctr[i]]

\* lines 107-114, on a 32-bit value
u32ToBEArray(v) == <<v[1] \div 256, v[1] % 256, v[2] \div 256, v[2] % 256>>

\* std::copy(be.begin(), be.end(), ctr.begin() + 12)
CopyAt12(be, ctr) == [i \in 1..16 |-> IF i >= 13 THEN be[i - 12] ELSE ctr[i]]

\* lines 91-99
FindCtrV02(h, exheader_ctr) ==
    LET e == ReverseCopy8(h.partition_id, exheader_ctr)
    IN  [exheader_ctr |-> [e EXCEPT ![9] = 1], exefs_ctr |-> [e EXCEPT ![9] = 2]]

\* lines 100-119
FindCtrV1(h, exheader_ctr) ==
    LET e == Copy8(h.partition_id, exheader_ctr)
    IN  [exheader_ctr |-> CopyAt12(u32ToBEArray(WFromInt(512)), e),
         exefs_ctr |-> CopyAt12(u32ToBEArray(U32Mul(h.exefs_offset, kBlockSize)), e)]

\* an unknown version not recorded as a failure to decrypt
FindCtrUnknownAccepted(h, exheader_ctr, exefs_ctr) ==
    IF h.version = 0 \/ h.version = 2
    THEN [ctrs |-> FindCtrV02(h, exheader_ctr), failed |-> FALSE, written |-> TRUE]
    ELSE IF h.version = 1
    THEN [ctrs |-> FindCtrV1(h, exheader_ctr), failed |-> FALSE, written |-> TRUE]
    ELSE [ctrs |-> [exheader_ctr |-> exheader_ctr, exefs_ctr |-> exefs_ctr],
          failed |-> FALSE, written |-> FALSE]

\* lines 91-123
FindCtr(h, exheader_ctr, exefs_ctr) ==
    IF h.version = 0 \/ h.version = 2
    THEN [ctrs |-> FindCtrV02(h, exheader_ctr), failed |-> FALSE, written |-> TRUE]
    ELSE IF h.version = 1
    THEN [ctrs |-> FindCtrV1(h, exheader_ctr), failed |-> FALSE, written |-> TRUE]
    ELSE [ctrs |-> [exheader_ctr |-> exheader_ctr, exefs_ctr |-> exefs_ctr],
          failed |-> TRUE, written |-> FALSE]

\* the value of a one-element set; used to name an intermediate result
TheOne(S) == CHOOSE x \in S : TRUE

\* lines 66-127, after has_header = true; cx carries the object n, the key
\* store keys, the calls ev so far, ret ("Continue" while the method runs)
\* and the local failed_to_decrypt
LoadCrypto(cx) ==
    IF cx.ret # "Continue" THEN cx
    ELSE IF ~cx.n.ncch_header.no_crypto
    THEN LET pk == FindPrimaryKey(cx.n.ncch_header, cx.keys)
             fc == FindCtr(cx.n.ncch_header, cx.n.exheader_ctr, cx.n.exefs_ctr)
         IN  [cx EXCEPT !.n.is_encrypted = TRUE,
                        !.n.primary_key = pk.primary_key,
                        !.n.exheader_ctr = fc.ctrs.exheader_ctr,
                        !.n.exefs_ctr = fc.ctrs.exefs_ctr,
                        !.keys = pk.keys,
                        !.failed_to_decrypt = pk.failed \/ fc.failed,
                        !.ev.key = pk.calls, !.ev.ctr = fc.written]
    ELSE [cx EXCEPT !.n.is_encrypted = FALSE]

(* --------------------------- Load, step 4 ------------------------------ *)
\* Load without the forced no-crypto scheme
JumpIdNeverMatches(exh, h) == FALSE

\* lines 143-144: the identifiers compared, masked to their low 32 bits
JumpIdMatches(exh, h) == U64Lo(exh.jump_id) = WFromInt(h.program_id.lo)

\* a step 4 that decrypts first and compares the decrypted jump id
DecryptExHeaderFirst(cx) ==
    IF ~cx.n.is_encrypted
    THEN cx
    ELSE IF cx.failed_to_decrypt
    THEN [cx EXCEPT !.ret = "ErrorEncrypted"]
    ELSE [cx EXCEPT !.n.exheader_header =
                        CryptExHeader(cx.n.primary_key, cx.n.exheader_ctr, @),
                    !.n.is_encrypted =
                        ~JumpIdMatches(CryptExHeader(cx.n.primary_key, cx.n.exheader_ctr,
                                                     cx.n.exheader_header),
                                       cx.n.ncch_header),
                    !.ev.cipher = @ \o <<"exheader">>]

\* lines 136-158: the extended header has been read in full into the object
DecryptExHeader(cx) ==
    IF ~cx.n.is_encrypted
    THEN cx
    ELSE IF JumpIdMatches(cx.n.exheader_header, cx.n.ncch_header)
    THEN [cx EXCEPT !.n.is_encrypted = FALSE]
    ELSE IF cx.failed_to_decrypt
    THEN [cx EXCEPT !.ret = "ErrorEncrypted"]
    ELSE [cx EXCEPT !.n.exheader_header =
                        CryptExHeader(cx.n.primary_key, cx.n.exheader_ctr, @),
                    !.ev.cipher = @ \o <<"exheader">>]

\* a step 4 that refuses every container with a failure to decrypt pending
LoadExHeaderKeyRequired(cx) ==
    IF cx.ret = "Continue" /\ cx.failed_to_decrypt
    THEN [cx EXCEPT !.ret = "ErrorEncrypted"]
    ELSE cx

\* lines 130-183; line 133 reads only through a handle that is good, and a
\* short read leaves the handle not good
LoadExHeader(cx) ==
    IF cx.ret # "Continue" \/ cx.n.ncch_header.extended_header_size = 0
    THEN cx
    ELSE IF ~cx.n.file_good
    THEN [cx EXCEPT !.ret = "Error"]
    ELSE IF ~ReadExHeader(cx.n.file).full
    THEN [cx EXCEPT !.ret = "Error", !.ev.io = @ \o <<"Read">>,
                    !.n.file_good = FALSE]
    ELSE LET d == DecryptExHeader(
                     [cx EXCEPT !.n.exheader_header = ReadExHeader(cx.n.file).data,
                                !.ev.io = @ \o <<"Read">>])
         IN  IF d.ret # "Continue" THEN d
             ELSE [d EXCEPT !.n.has_exheader = TRUE]

(* --------------------------- Load, step 5 ------------------------------ *)
\* lines 196-204: the ExeFS header has been read in full into the object
DecryptExeFsHeader(cx) ==
    [cx EXCEPT !.n.exefs_header =
                   IF cx.n.is_encrypted
                   THEN CryptExeFsHeader(cx.n.primary_key, cx.n.exefs_ctr, @)
                   ELSE @,
               !.ev.cipher = IF cx.n.is_encrypted THEN @ \o <<"exefs_header">> ELSE @,
               !.n.exefs_file = cx.n.file,
               !.n.has_exefs = TRUE]

\* lines 186-205
LoadExeFsHeader(cx) ==
    IF cx.ret # "Continue" \/ cx.n.ncch_header.exefs_size = 0
    THEN cx
    ELSE LET off == U32Mul(cx.n.ncch_header.exefs_offset, kBlockSize)
             rd  == ReadExeFsHeader(cx.n.file, off, cx.n.exefs_header)
         IN  IF ~rd.full
             THEN [cx EXCEPT !.n.exefs_offset = off, !.ret = "Error",
                             !.n.exefs_header = rd.data,
                             !.n.file_good = FALSE,
                             !.ev.io = @ \o <<"Seek", "Read">>,
                             !.ev.seekExefs = off]
             ELSE DecryptExeFsHeader(
                     [cx EXCEPT !.n.exefs_offset = off,
                                !.n.exefs_header = rd.data,
                                !.ev.io = @ \o <<"Seek", "Read">>,
                                !.ev.seekExefs = off])

(* ------------------------------- Load ---------------------------------- *)
\* Load without its early return
AlreadyLoadedIgnored(n) == FALSE

\* lines 51-52
AlreadyLoaded(n) == n.is_loaded

\* Load without its magic check
MagicUnchecked(h) == TRUE

\* lines 62-63
MagicMatches(h) == NCCHMagic = h.magic

\* lines 51-65: up to has_header = true
LoadNCCHHeader(n, k) ==
    LET cx == [n |-> n, keys |-> k, ret |-> "Continue", ev |-> NoCalls,
               failed_to_decrypt |-> FALSE]
    IN  IF AlreadyLoaded(n)
        THEN [cx EXCEPT !.ret = "Success"]
        ELSE IF ~n.file.open
        THEN [cx EXCEPT !.ret = "Finish"]
        ELSE IF ~ReadNCCHHeader(n.file).full
        THEN [cx EXCEPT !.ret = "Error", !.ev.io = <<"Seek", "Read">>,
                        !.n.file_good = FALSE]
        ELSE IF ~MagicMatches(ReadNCCHHeader(n.file).data)
        THEN [cx EXCEPT !.n.ncch_header = ReadNCCHHeader(n.file).data,
                        !.ret = "ErrorInvalidFormat",
                        !.ev.io = <<"Seek", "Read">>]
        ELSE [cx EXCEPT !.n.ncch_header = ReadNCCHHeader(n.file).data,
                        !.n.has_header = TRUE,
                        !.ev.io = <<"Seek", "Read">>]

\* lines 208-209
LoadFinish(cx) ==
    IF cx.ret \in {"Continue", "Finish"}
    THEN [n |-> [cx.n EXCEPT !.is_loaded = TRUE], keys |-> cx.keys,
          ret |-> "Success",
          out |-> [written |-> FALSE, size |-> <<0, 0>>, buf |-> <<>>,
                   hi |-> <<0, 0>>, lo |-> <<0, 0>>],
          ev |-> cx.ev]
    ELSE [n |-> cx.n, keys |-> cx.keys, ret |-> cx.ret,
          out |-> [written |-> FALSE, size |-> <<0, 0>>, buf |-> <<>>,
                   hi |-> <<0, 0>>, lo |-> <<0, 0>>],
          ev |-> cx.ev]

\* lines 49-210: the object, the key store, the result and the calls made
Load(n, k) ==
    TheOne({ LoadFinish(c5) :
        c5 \in { LoadExeFsHeader(c4) :
            c4 \in { LoadExHeader(c3) :
                c3 \in { LoadCrypto(c1) : c1 \in {LoadNCCHHeader(n, k)} } } } })

(* --------------------------- the accessors ----------------------------- *)
\* the output argument: written, the size of the buffer after resize (a
\* wide number), the bytes at its start that the method stored (the rest is
\* zero), and the two halves of an identifier
NoOut ==
    [written |-> FALSE, size |-> <<0, 0>>, buf |-> <<>>,
     hi |-> <<0, 0>>, lo |-> <<0, 0>>]

\* lines 222-225: index of the first section whose name compares equal, 0 if none
FindSection(dir, name) ==
    LET S == {j \in 1..kMaxSections : StrcmpEqual(dir[j].name, CStr(name))}
    IN  IF S = {} THEN 0 ELSE CHOOSE j \in S : \A i \in S : j <= i

\* line 229: (section.offset + exefs_offset + sizeof(ExeFs_Header)), the sum of
\* the two u32 is formed first
SectionOffset(section, exefs_offset) ==
    WAdd(U32Add(U32LE(section.offset), exefs_offset), WFromInt(SizeofExeFsHeader))

\* line 234: the argument of dec.Seek, a 64-bit sum
SectionKeystreamOffset(section) ==
    WAdd(U32LE(section.offset), WFromInt(SizeofExeFsHeader))

\* lines 229-236: the seek of the file, the seek of the keystream and
\* buffer.resize(section.size)
SeekSection(l, section) ==
    [l EXCEPT !.ev.io = @ \o <<"Seek">>,
              !.ev.seekSection = SectionOffset(section, l.n.exefs_offset),
              !.ev.ksSeek = SectionKeystreamOffset(section),
              !.out.written = TRUE,
              !.out.size = U32LE(section.size)]

\* lines 237-243: l is the result of SeekSection, count the number of bytes
\* ReadBytes obtained, got their values
ReadIntoBuffer(l, count, got) ==
    [l EXCEPT
       !.ev.io = @ \o <<"Read">>,
       !.ev.cipher = IF count = l.out.size /\ l.n.is_encrypted
                     THEN @ \o <<"section">> ELSE @,
       !.ret = IF count # l.out.size THEN "Error" ELSE "Success",
       !.out.buf = IF count = l.out.size /\ l.n.is_encrypted
                   THEN CryptBuffer(l.n.primary_key, l.n.exefs_ctr, l.ev.ksSeek, got)
                   ELSE got]

\* lines 229-243: l is the result of Load, section the section found; the set
\* of outcomes.  With section.size = 0 the vector is empty and &buffer[0]
\* (line 237) is undefined: a build with a checked operator[] aborts there,
\* other builds go on with a read of 0 bytes
ReadSection(l, section) ==
    { IF abort THEN [s EXCEPT !.ret = "Abort"]
      ELSE ReadIntoBuffer(s, ReadCount(s.n.exefs_file, s.ev.seekSection, s.out.size),
                          ReadPayload(s.n.exefs_file, s.ev.seekSection, s.out.size)) :
        s \in {SeekSection(l, section)},
        abort \in IF U32LE(section.size) = <<0, 0>> THEN BOOLEAN ELSE {FALSE} }

\* a lookup that does not test whether the ExeFS file is open
SectionAfterLoadUnchecked(l, name) ==
    IF l.ret # "Success" THEN {l}
    ELSE IF FindSection(l.n.exefs_header, name) = 0
    THEN {[l EXCEPT !.ret = "ErrorNotUsed"]}
    ELSE ReadSection(l, l.n.exefs_header[FindSection(l.n.exefs_header, name)])

\* lines 214-247: l is the result of Load; the set of outcomes
SectionAfterLoad(l, name) ==
    IF l.ret # "Success" THEN {l}
    ELSE IF ~l.n.exefs_file.open THEN {[l EXCEPT !.ret = "Error"]}
    ELSE IF FindSection(l.n.exefs_header, name) = 0
    THEN {[l EXCEPT !.ret = "ErrorNotUsed"]}
    ELSE ReadSection(l, l.n.exefs_header[FindSection(l.n.exefs_header, name)])

\* lines 212-247: the set of outcomes; name is the character of CStr
LoadSectionExeFS(n, k, name) ==
    UNION { SectionAfterLoad(l, name) : l \in {Load(n, k)} }

\* lines 251-258: l is the result of Load
ProgramIdAfterLoad(l) ==
    IF l.ret # "Success" THEN l
    ELSE IF ~l.n.has_header THEN [l EXCEPT !.ret = "ErrorNotUsed"]
    ELSE [l EXCEPT !.out.written = TRUE,
                   !.out.hi = WFromInt(l.n.ncch_header.program_id.hi),
                   !.out.lo = WFromInt(l.n.ncch_header.program_id.lo)]

\* lines 249-259
ReadProgramId(n, k) == TheOne({ ProgramIdAfterLoad(l) : l \in {Load(n, k)} })

\* line 269: other_attributes >> 1, as a condition
UsesExtendedSaveDataAccess(other_attributes) == (other_attributes \div 2) # 0

\* lines 281-289: the first non-zero identifier, 0 if there is none
FirstNonZero(ids) ==
    LET S == {i \in 1..Len(ids) : ids[i] # 0}
    IN  IF S = {} THEN 0 ELSE ids[CHOOSE i \in S : \A j \in S : i <= j]

\* lines 263-293: l is the result of Load
ExtdataIdAfterLoad(l) ==
    IF l.ret # "Success" THEN l
    ELSE IF ~l.n.has_exheader THEN [l EXCEPT !.ret = "ErrorNotUsed"]
    ELSE IF UsesExtendedSaveDataAccess(l.n.exheader_header.other_attributes)
    THEN IF FirstNonZero(l.n.exheader_header.extdata_ids) # 0
         THEN [l EXCEPT !.out.written = TRUE,
                        !.out.hi = <<0, 0>>,
                        !.out.lo = WFromInt(FirstNonZero(l.n.exheader_header.extdata_ids))]
         ELSE [l EXCEPT !.ret = "ErrorNotUsed"]
    ELSE [l EXCEPT !.out.written = TRUE,
                   !.out.hi = U64Hi(l.n.exheader_header.ext_save_data_id),
                   !.out.lo = U64Lo(l.n.exheader_header.ext_save_data_id)]

\* lines 261-294
ReadExtdataId(n, k) == TheOne({ ExtdataIdAfterLoad(l) : l \in {Load(n, k)} })

\* lines 298-301: l is the result of Load
ExeFSAfterLoad(l) ==
    [l EXCEPT !.ret = IF l.ret # "Success" THEN "false"
                      ELSE IF l.n.has_exefs THEN "true" ELSE "false"]

\* lines 296-302
HasExeFS(n, k) == TheOne({ ExeFSAfterLoad(l) : l \in {Load(n, k)} })

\* the flag returned whatever Load returned
ExHeaderFlagOnly(l) ==
    [l EXCEPT !.ret = IF l.n.has_exheader THEN "true" ELSE "false"]

\* lines 306-309: l is the result of Load
ExHeaderAfterLoad(l) ==
    [l EXCEPT !.ret = IF l.ret # "Success" THEN "false"
                      ELSE IF l.n.has_exheader THEN "true" ELSE "false"]

\* lines 304-310
HasExHeader(n, k) == TheOne({ ExHeaderAfterLoad(l) : l \in {Load(n, k)} })

(* -------------------------- LoadSharedRomFS ---------------------------- *)
\* The buffer passed to LoadSharedRomFS: its length, the romfs_offset field of
\* the NCCH header it starts with, the byte position ivfc_at (a multiple of
\* 512, not 0) at which it holds the IVFC header ivfc, and outside the two
\* headers the byte DataByte(pos) at position pos.
IVFCMagic == MakeMagic(73, 86, 70, 67)

\* what 0x60 bytes read as an IVFC header where the buffer holds none
NoIVFC ==
    [magic |-> 0, version |-> 0, master_hash_size |-> 0,
     levels |-> [j \in 1..3 |-> [size |-> 0, block_size |-> 0]]]

DataByte(pos) == (pos + pos \div 256) % 256

\* std::memcpy(&ivfc, data.data() + offset, sizeof(ivfc))
ReadIVFC(data, offset) ==
    IF offset = WFromInt(data.ivfc_at) THEN data.ivfc ELSE NoIVFC

\* std::pow(2, n) converted to std::size_t (exact for the exponents used)
RECURSIVE Pow2(_)
Pow2(n) == IF n = 0 THEN 1 ELSE 2 * Pow2(n - 1)

\* Common::AlignUp(value, size)
AlignUp(value, size) == value + ((size - (value % size)) % size)

\* lines 339-341: the second operand of the sum; levels[3] is levels[2] of
\* the 0-based array
RomFsDataOffset(ivfc) ==
    AlignUp(SizeofIVFCHeader + ivfc.master_hash_size, Pow2(ivfc.levels[3].block_size))

\* lines 342-345: the copy, or the failed assertion
CopyLevel2(data, data_offset, size) ==
    IF ~WLeq(WAdd(data_offset, WFromInt(size)), WFromInt(data.size))
    THEN [ret |-> "Abort", out |-> NoOut]
    ELSE [ret |-> "Success",
          out |-> [NoOut EXCEPT !.written = TRUE,
                      !.buf = [i \in 1..size |-> DataByte(WInt(data_offset) + i - 1)]]]

\* lines 328-345: offset is header.romfs_offset * 0x200, a 32-bit product
LoadIVFC(data, offset) ==
    IF ~WLeq(WAdd(offset, WFromInt(SizeofIVFCHeader)), WFromInt(data.size))
    THEN [ret |-> "Abort", out |-> NoOut]
    ELSE IF ReadIVFC(data, offset).magic # IVFCMagic
    THEN [ret |-> "Abort", out |-> NoOut]
    ELSE IF ReadIVFC(data, offset).version # IVFCVersion
    THEN [ret |-> "Abort", out |-> NoOut]
    ELSE CopyLevel2(data,
                    WAdd(offset, WFromInt(RomFsDataOffset(ReadIVFC(data, offset)))),
                    ReadIVFC(data, offset).levels[3].size)

\* lines 323-346; "Abort" is a failed ASSERT_MSG
LoadSharedRomFS(data) ==
    IF data.size < SizeofNCCHHeader
    THEN [ret |-> "Abort", out |-> NoOut]
    ELSE LoadIVFC(data, U32Mul(data.header.romfs_offset, 512))

(* ------------------------------ files ---------------------------------- *)
Pid(s) == [i \in 1..8 |-> (16 * s + i) % 256]

Payload == [i \in 1..PayloadLen |-> 10 * i + 1]

\* {"icon", off 0, size 1}, {"banner", off 1, size 2}
DirIconBanner ==
    [j \in 1..kMaxSections |->
        IF j = 1 THEN SectionOf(1, 0, 1)
        ELSE IF j = 2 THEN SectionOf(2, 1, 2)
        ELSE NoSection]

\* the same name twice, and a section in the last slot
DirDuplicate ==
    [j \in 1..kMaxSections |->
        IF j = 2 THEN SectionOf(2, 2, 1)
        ELSE IF j = 3 THEN SectionOf(2, 0, 2)
        ELSE IF j = kMaxSections THEN SectionOf(1, 1, PayloadLen)
        ELSE SectionOf(3 + j, 0, 0)]

\* section offsets that the sum at line 229 wraps to a position before the
\* payload: 0xFFFFFFFF (the last byte of the ExeFS header) and 0xFFFFF7C8
\* (the jump id of the extended header, for an ExeFS at 2560)
DirWrapped ==
    [j \in 1..kMaxSections |->
        IF j = 1
        THEN [name |-> Name8(1), offset |-> <<255, 255, 255, 255>>, size |-> LE4(2)]
        ELSE IF j = 2
        THEN [name |-> Name8(2), offset |-> <<200, 247, 255, 255>>, size |-> LE4(1)]
        ELSE NoSection]

\* jump: the eight bytes of the jump id
ExHeaderOf(jump, attr, ids, legacy) ==
    [jump_id |-> jump, ext_save_data_id |-> LE8(legacy),
     extdata_ids |-> ids, other_attributes |-> attr]

HeaderOf(no_crypto, fixed_key, version, pid, ext_size, exefs_offset, exefs_size) ==
    [magic |-> NCCHMagic, no_crypto |-> no_crypto, fixed_key |-> fixed_key,
     version |-> version, partition_id |-> pid, program_id |-> [hi |-> 1, lo |-> 5],
     signature |-> 2, extended_header_size |-> ext_size,
     exefs_offset |-> exefs_offset, exefs_size |-> exefs_size]

FileOf(h, exh, exheader, dir, exefs, payload) ==
    [open |-> TRUE, hdr |-> "full", exh |-> exh, dir |-> dir,
     header |-> h, exheader |-> exheader, exefs |-> exefs, payload |-> payload]

\* an empty file: the read of the outer header returns 0 bytes
TruncatedFile == [NoFile EXCEPT !.open = TRUE]

\* a file whose first four bytes are "NCSD"
BadMagicFile ==
    FileOf([HeaderOf(FALSE, FALSE, 0, Pid(0), 1, 5, 1) EXCEPT
                !.magic = MakeMagic(78, 67, 83, 68)],
           "full", ExHeaderOf(LE8(9), 0, [i \in 1..6 |-> 0], 42), "full",
           DirIconBanner, Payload)

Ids007 == [i \in 1..6 |-> IF i = 3 THEN 7 ELSE 0]

\* the crypto settings of the lifecycle files: <<no_crypto, fixed_key, version>>
LifeCrypto == {<<TRUE, FALSE, 0>>, <<FALSE, FALSE, 0>>, <<FALSE, TRUE, 3>>}

\* extended header: absent, cut short, with a jump id equal / unequal in the
\* low 32 bits to the program id (5), the unequal one (261) equal to it in the
\* lowest byte; ExeFS: absent or present
LifeFile(c, e, x) ==
    FileOf(HeaderOf(c[1], c[2], c[3], Pid(0),
                    IF e = "none" THEN 0 ELSE 1, 5, IF x = "none" THEN 0 ELSE 1),
           IF e = "short" THEN "short" ELSE "full",
           ExHeaderOf(LE8(IF e = "match" THEN 5 ELSE 261),
                      0, Ids007, 42),
           IF x = "short" \/ e = "short" THEN "short" ELSE "full",
           DirIconBanner, Payload)

LifeFiles ==
    {NoFile, TruncatedFile, BadMagicFile, LifeFile(<<TRUE, FALSE, 0>>, "none", "short"),
     LifeFile(<<TRUE, FALSE, 0>>, "mismatch", "short")}
    \cup { LifeFile(c, e, x) :
             c \in LifeCrypto, e \in {"none", "short", "match", "mismatch"},
             x \in {"none", "full"} }

(* files of the section universe: plain containers, and the same containers
   encrypted as the console does it, every region one CTR stream from
   keystream offset 0 under the key and counters of a freshly derived state *)
SecCrypto == {<<TRUE, FALSE, 0>>, <<FALSE, TRUE, 0>>, <<FALSE, FALSE, 1>>}

KeyFor(h) == IF h.fixed_key THEN 0 ELSE GetNormalKey([avail |-> TRUE, keyY |-> h.signature])

CtrFor(h) == FindCtr(h, ZeroCtr, ZeroCtr).ctrs

Encrypted(f) ==
    IF f.header.no_crypto THEN f
    ELSE [f EXCEPT
            !.exheader = CryptExHeader(KeyFor(f.header), CtrFor(f.header).exheader_ctr, @),
            !.exefs = CryptExeFsHeader(KeyFor(f.header), CtrFor(f.header).exefs_ctr, @),
            !.payload = CryptBuffer(KeyFor(f.header), CtrFor(f.header).exefs_ctr,
                                    WFromInt(SizeofExeFsHeader), @)]

\* e: extended header absent, present, or present with a jump id whose
\* encryption equals the program id (5) in the low 32 bits
SecPlain(c, e, dir, len) ==
    FileOf(HeaderOf(c[1], c[2], c[3], Pid(0), IF e = "none" THEN 0 ELSE 1, 5, 1),
           "full",
           ExHeaderOf(IF e = "collide"
                      THEN [i \in 1..8 |->
                              IF i > 4 THEN 0
                              ELSE Crypt(KeyFor(HeaderOf(c[1], c[2], c[3], Pid(0), 1, 5, 1)),
                                         CtrFor(HeaderOf(c[1], c[2], c[3], Pid(0), 1, 5, 1)).exheader_ctr,
                                         ExhOff.jump_id + (i - 1), LE4(5)[i])]
                      ELSE LE8(9),
                      0, Ids007, 42),
           "full", dir, SubSeq(Payload, 1, len))

SecFiles ==
    {LifeFile(<<TRUE, FALSE, 0>>, "none", "none")} \cup
    { Encrypted(SecPlain(c, e, dir, len)) :
        c \in SecCrypto, e \in {"none", "plain", "collide"},
        dir \in {DirIconBanner, DirDuplicate}, len \in {2, PayloadLen} } \cup
    { Encrypted(SecPlain(c, "plain", DirWrapped, PayloadLen)) : c \in SecCrypto }

\* files of the extended-header universe
ExtIds == {Ids007, [i \in 1..6 |-> 0], [i \in 1..6 |-> IF i = 2 THEN 3 ELSE IF i = 5 THEN 7 ELSE 0]}

\* plain containers, the same containers encrypted under the fixed key, and
\* containers marked encrypted whose extended header is stored in the clear
\* (one of them with an attribute byte that decrypts to 0)
ExtPlain(no_crypto, a, ids, legacy) ==
    FileOf(HeaderOf(no_crypto, TRUE, 0, Pid(0), 1, 5, 0), "full",
           ExHeaderOf(LE8(9), a, ids, legacy), "full", DirIconBanner, Payload)

ExtFiles ==
    {NoFile, LifeFile(<<TRUE, FALSE, 0>>, "none", "none")} \cup
    { ExtPlain(TRUE, a, ids, legacy) :
        a \in 0..MaxAttr, ids \in ExtIds, legacy \in {0, 42} } \cup
    { Encrypted(ExtPlain(FALSE, a, Ids007, legacy)) :
        a \in 0..MaxAttr, legacy \in {0, 42} } \cup
    { ExtPlain(FALSE, a, Ids007, 42) :
        a \in {0, Crypt(0, CtrFor(HeaderOf(FALSE, TRUE, 0, Pid(0), 1, 5, 0)).exheader_ctr,
                        ExhOff.other_attributes, 0)} }

\* files of the counter universe: every version, ExeFS offsets whose product
\* with 512 fits and does not fit in 32 bits, extended header absent or cut short
IvOffsets == {5, 8388613}

IvFiles ==
    { FileOf(HeaderOf(FALSE, TRUE, v, Pid(s), IF e = "none" THEN 0 ELSE 1, x, 1),
             IF e = "short" THEN "short" ELSE "full", ZeroExHeader, IF e = "short" THEN "short" ELSE "full",
             DirIconBanner, Payload) :
        v \in 0..3, s \in 0..MaxPidSeed, e \in {"none", "short"}, x \in IvOffsets }

\* buffers given to LoadSharedRomFS: media-unit offsets whose product with
\* 512 fits and does not fit in 32 bits (8388609 * 512 = 2^32 + 512), IVFC
\* headers with a right or wrong magic and version, with and without master
\* hashes, block sizes 1, 512 and 4096
RomFsOffsets == {1, 2, 8388609}

RomFsSizes == {256, 600, 1024, 1025, 1537, 4720}

\* <<magic, version>>
RomFsStamps ==
    {<<IVFCMagic, IVFCVersion>>, <<MakeMagic(73, 86, 70, 68), IVFCVersion>>,
     <<IVFCMagic, IVFCVersion + 1>>}

\* <<master_hash_size, levels[2].block_size>>
RomFsLayouts == {<<0, 9>>, <<0, 0>>, <<32, 9>>, <<1000, 9>>, <<0, 12>>}

IVFCOf(stamp, layout, size) ==
    [magic |-> stamp[1], version |-> stamp[2], master_hash_size |-> layout[1],
     levels |-> [j \in 1..3 |->
                    IF j = 3 THEN [size |-> size, block_size |-> layout[2]]
                    ELSE [size |-> 32, block_size |-> 5]]]

RomFsBuffers ==
    { [size |-> n, header |-> [romfs_offset |-> m], ivfc_at |-> at,
       ivfc |-> IVFCOf(stamp, layout, sz)] :
        n \in RomFsSizes, m \in RomFsOffsets, at \in {512, 1024},
        stamp \in RomFsStamps, layout \in RomFsLayouts, sz \in 0..MaxRomFsSize }

Files(u) ==
    IF u = "life" THEN LifeFiles
    ELSE IF u = "sec" THEN SecFiles
    ELSE IF u = "ext" THEN ExtFiles
    ELSE IvFiles

(* ------------------------------ state ---------------------------------- *)
VARIABLES
    ncch,       \* the NCCHContainer object
    keys,       \* the key store
    op,         \* the last method called
    arg,        \* the argument passed to it (a section name, a buffer)
    ret,        \* its result
    out,        \* its output argument
    ev,         \* the calls it made
    universe    \* the family of files that exist

vars == <<ncch, keys, op, arg, ret, out, ev, universe>>

\* the members as the class declares them; file_good is file.IsGood(), what
\* operator bool of the handle answers
NewContainer(f) ==
    [file |-> f, file_good |-> f.open, exefs_file |-> NoFile,
     is_loaded |-> FALSE, has_header |-> FALSE, has_exheader |-> FALSE,
     has_exefs |-> FALSE, is_encrypted |-> FALSE, primary_key |-> 0,
     exheader_ctr |-> ZeroCtr, exefs_ctr |-> ZeroCtr,
     ncch_header |-> ZeroNCCHHeader, exheader_header |-> ZeroExHeader,
     exefs_header |-> EmptyExeFsHeader, exefs_offset |-> <<0, 0>>]

\* lines 30-33: the constructor
InitIn(u) ==
    /\ universe = u
    /\ \E f \in Files(u) : ncch = NewContainer(f)
    /\ keys \in [avail : BOOLEAN, keyY : {0}]
    /\ op = "NCCHContainer" /\ arg = 0 /\ ret = "Success"
    /\ out = NoOut /\ ev = NoCalls

Init == InitIn("life")

\* a process that has aborted makes no further call
Returns(name, a, r) ==
    /\ ret # "Abort"
    /\ ncch' = r.n /\ keys' = r.keys
    /\ op' = name /\ arg' = a /\ ret' = r.ret /\ out' = r.out /\ ev' = r.ev
    /\ UNCHANGED universe

\* lines 35-47
OpenFile(n, k, f) ==
    [n |-> [n EXCEPT !.file = f, !.file_good = f.open], keys |-> k,
     ret |-> IF f.open THEN "Success" ELSE "Error", out |-> NoOut, ev |-> NoCalls]

CallOpenFile ==
    \E f \in Files(universe) : Returns("OpenFile", 0, OpenFile(ncch, keys, f))

CallLoad == \E r \in {Load(ncch, keys)} : Returns("Load", 0, r)

CallLoadSectionExeFS ==
    \E name \in 0..MaxName :
        \E r \in LoadSectionExeFS(ncch, keys, name) :
            Returns("LoadSectionExeFS", name, r)

CallReadProgramId ==
    \E r \in {ReadProgramId(ncch, keys)} : Returns("ReadProgramId", 0, r)

CallReadExtdataId ==
    \E r \in {ReadExtdataId(ncch, keys)} : Returns("ReadExtdataId", 0, r)

CallHasExeFS == \E r \in {HasExeFS(ncch, keys)} : Returns("HasExeFS", 0, r)

CallHasExHeader == \E r \in {HasExHeader(ncch, keys)} : Returns("HasExHeader", 0, r)

\* the free function, applied to a buffer; a failed ASSERT_MSG ends the
\* process
CallLoadSharedRomFS ==
    \E d \in RomFsBuffers :
        \E r \in {LoadSharedRomFS(d)} :
            /\ ret # "Abort"
            /\ op' = "LoadSharedRomFS" /\ arg' = d /\ ret' = r.ret /\ out' = r.out
            /\ ev' = NoCalls
            /\ UNCHANGED <<ncch, keys, universe>>

Next ==
    \/ CallOpenFile
    \/ CallLoad
    \/ CallLoadSectionExeFS
    \/ CallReadProgramId
    \/ CallReadExtdataId
    \/ CallHasExeFS
    \/ CallHasExHeader

Spec == Init /\ [][Next]_vars

\* the decoder over the files of the section universe
SpecSec == InitIn("sec") /\ [][Next]_vars

\* the decoder over the files of the extended-header universe
SpecExt == InitIn("ext") /\ [][Next]_vars

\* the decoder over the files of the counter universe
SpecIV == InitIn("iv") /\ [][Next]_vars

\* LoadSharedRomFS over the buffers; no decoder is involved
InitRomFS ==
    /\ universe = "romfs"
    /\ ncch = NewContainer(NoFile) /\ keys = [avail |-> FALSE, keyY |-> 0]
    /\ op = "main" /\ arg = 0 /\ ret = "Success"
    /\ out = NoOut /\ ev = NoCalls

NextRomFS == CallLoadSharedRomFS

SpecRomFS == InitRomFS /\ [][NextRomFS]_vars

(* ======================= properties of the decoder ===================== *)
\* the methods that start with Load()
LoadingOps ==
    {"Load", "LoadSectionExeFS", "ReadProgramId", "ReadExtdataId", "HasExeFS",
     "HasExHeader"}

\* the version is one the decoder derives counters for
KnownVersion(h) == h.version \in {0, 1, 2}

\* steps 2 and 3 record a failure to decrypt for header h under key store k
PendingFailure(h, k) == (~h.fixed_key /\ ~k.avail) \/ ~KnownVersion(h)

\* this step runs the body of Load on a file whose outer header is read in full
RunsLoadBody == op' \in LoadingOps /\ ~ncch.is_loaded /\ ncch.file.open
                /\ ncch.file.hdr = "full"

(* C1: Load is idempotent.  A Load that returns Success leaves the decoder
   loaded, a loaded decoder stays loaded, and a Load on a loaded decoder
   returns Success, calls neither the byte source nor the key store nor the
   cipher and leaves the object and the key store unchanged. *)
C1_LoadIdempotent ==
    [][ /\ (op' = "Load" /\ ret' = "Success" => ncch'.is_loaded)
        /\ (ncch.is_loaded => ncch'.is_loaded)
        /\ (ncch.is_loaded /\ op' = "Load" =>
                ret' = "Success" /\ ev' = NoCalls /\ ncch' = ncch /\ keys' = keys)
      ]_vars

\* a Load on a decoder that had already loaded an open file
C1_Witness ==
    /\ op = "Load" /\ ret = "Success" /\ ev = NoCalls
    /\ ncch.is_loaded /\ ncch.has_header /\ ncch.has_exefs /\ ncch.file.open

(* C2: when the outer header is read in full and its magic is not NCCH, Load
   returns ErrorInvalidFormat after that single read: no key store call, no
   counter derived, nothing passed through the cipher, none of has_header,
   has_exheader, has_exefs, is_loaded, is_encrypted changed; an accessor
   called in that situation returns the same error (false for the two
   predicates) and does not write its output argument. *)
C2_BadMagicRejected ==
    [][ RunsLoadBody /\ ncch.file.header.magic # NCCHMagic =>
          /\ ret' = IF op' \in {"HasExeFS", "HasExHeader"} THEN "false"
                    ELSE "ErrorInvalidFormat"
          /\ ev'.io = <<"Seek", "Read">> /\ ev'.key = <<>> /\ ~ev'.ctr
          /\ ev'.cipher = <<>>
          /\ ncch'.has_header = ncch.has_header
          /\ ncch'.has_exheader = ncch.has_exheader
          /\ ncch'.has_exefs = ncch.has_exefs
          /\ ncch'.is_encrypted = ncch.is_encrypted
          /\ ~ncch'.is_loaded
          /\ ncch'.exheader_ctr = ncch.exheader_ctr
          /\ ncch'.exefs_ctr = ncch.exefs_ctr
          /\ ncch'.primary_key = ncch.primary_key
          /\ ~out'.written
      ]_vars

\* ReadProgramId refused on a file whose rejected header is in ncch_header
C2_Witness ==
    /\ op = "ReadProgramId" /\ ret = "ErrorInvalidFormat" /\ ~out.written
    /\ ncch.ncch_header = ncch.file.header /\ ncch.ncch_header.magic # NCCHMagic
    /\ ncch.ncch_header.program_id.lo # 0
    /\ ~ncch.has_header /\ ~ncch.is_loaded

\* the last method was a Load that read the extended header in full
LoadReadExHeader ==
    /\ op = "Load" /\ Len(ev.io) >= 3 /\ ncch.file.exh = "full"
    /\ ~ncch.ncch_header.no_crypto
    /\ ncch.ncch_header.extended_header_size # 0

(* C3, as claimed: with the no-crypto flag clear, an extended header present
   and read in full, and a failure to decrypt pending, Load returns
   ErrorEncrypted whatever the extended header holds. *)
C3_Original ==
    LoadReadExHeader /\ PendingFailure(ncch.ncch_header, keys) =>
        ret = "ErrorEncrypted"

(* C3, amended: ... Load returns ErrorEncrypted provided the low 32 bits of
   the jump id of the extended header as read differ from the low 32 bits of
   the program id. *)
C3_EncryptedButNoKey ==
    /\ LoadReadExHeader /\ PendingFailure(ncch.ncch_header, keys)
    /\ U64Lo(ncch.file.exheader.jump_id) # WFromInt(ncch.ncch_header.program_id.lo)
    => ret = "ErrorEncrypted"

\* a Load refused for an unknown version, and one refused for a missing key
C3_Witness ==
    /\ LoadReadExHeader /\ PendingFailure(ncch.ncch_header, keys)
    /\ ret = "ErrorEncrypted"
    /\ U64Lo(ncch.file.exheader.jump_id) # WFromInt(ncch.ncch_header.program_id.lo)

\* the file f is marked encrypted and its extended header, as stored in the
\* file, carries a jump id equal to the program id in the low 32 bits
LooksDecrypted(f) ==
    /\ f.open /\ f.hdr = "full" /\ f.header.magic = NCCHMagic
    /\ ~f.header.no_crypto /\ f.header.extended_header_size # 0
    /\ f.exh = "full"
    /\ U64Lo(f.exheader.jump_id) = WFromInt(f.header.program_id.lo)

(* C4: self-correction.  A Load of a file marked encrypted whose extended
   header carries a jump id equal to the program id in the low 32 bits
   leaves is_encrypted false and passes neither the extended header nor the
   ExeFS header through the cipher; a section later read from that file is
   returned as stored, not passed through the cipher. *)
C4_SelfCorrection ==
    [][ /\ (RunsLoadBody /\ LooksDecrypted(ncch.file) =>
              ~ncch'.is_encrypted /\ ev'.cipher = <<>>)
        /\ (LooksDecrypted(ncch'.exefs_file) =>
              /\ ~ncch'.is_encrypted
              /\ ncch'.exefs_header = ncch'.exefs_file.exefs
              /\ (op' = "LoadSectionExeFS" /\ ret' = "Success" =>
                    /\ ev'.cipher = <<>>
                    /\ out'.buf = ReadPayload(ncch'.exefs_file, ev'.seekSection,
                                              out'.size)))
      ]_vars

\* a non-empty section returned from a self-corrected container
C4_Witness ==
    /\ op = "LoadSectionExeFS" /\ ret = "Success" /\ Len(out.buf) = 2
    /\ LooksDecrypted(ncch.exefs_file) /\ ~ncch.is_encrypted
    /\ ncch.has_exheader /\ ncch.has_exefs

\* the last method was LoadSectionExeFS, its Load succeeded and the ExeFS
\* file is open
SectionLookedUp ==
    op = "LoadSectionExeFS" /\ ncch.is_loaded /\ ncch.exefs_file.open

\* the section headers, in the ExeFS header held by the decoder, whose name
\* equals the requested name
MatchingSections ==
    {j \in 1..kMaxSections : StrcmpEqual(ncch.exefs_header[j].name, CStr(arg))}

(* C5: LoadSectionExeFS, after a successful Load with the ExeFS opened, uses
   the first of the 8 section headers whose name equals the requested name:
   it seeks to exefs_offset + sizeof(ExeFs_Header) + section.offset and
   returns (with Success, or Error on a short read) a buffer of exactly
   section.size bytes, which on Success of a plain container are the bytes
   stored there; when no name matches it returns ErrorNotUsed without
   seeking, reading or touching the buffer. *)
C5_FirstMatchWins ==
    SectionLookedUp =>
        IF MatchingSections = {}
        THEN /\ ret = "ErrorNotUsed" /\ ~out.written
             /\ ev.seekSection = NoOffset /\ ev.ksSeek = NoOffset
             /\ ev.io \in {<<>>, <<"Seek", "Read", "Seek", "Read">>,
                           <<"Seek", "Read", "Read", "Seek", "Read">>}
        ELSE \E j \in MatchingSections :
                /\ \A i \in 1..(j - 1) :
                      ~StrcmpEqual(ncch.exefs_header[i].name, CStr(arg))
                /\ ev.seekSection =
                       WAdd(WAdd(ncch.exefs_offset, WFromInt(SizeofExeFsHeader)),
                            U32LE(ncch.exefs_header[j].offset))
                /\ out.written /\ out.size = U32LE(ncch.exefs_header[j].size)
                /\ ret \in {"Success", "Error"}
                /\ (ret = "Success" /\ ~ncch.is_encrypted =>
                        /\ Len(out.buf) = Tracked(out.size)
                        /\ out.buf = ReadPayload(ncch.exefs_file, ev.seekSection,
                                                 out.size))

\* the ExeFS region of file f decrypted as one stream from keystream offset 0
\* under the key and counter the decoder holds
PlainExeFsHeader(f) == CryptExeFsHeader(ncch.primary_key, ncch.exefs_ctr, f.exefs)

PlainPayload(f) ==
    CryptBuffer(ncch.primary_key, ncch.exefs_ctr, WFromInt(SizeofExeFsHeader),
                f.payload)

\* the extended header of f decrypted from keystream offset 0
PlainExHeader(f) == CryptExHeader(ncch.primary_key, ncch.exheader_ctr, f.exheader)

\* section header j of the plaintext directory of f is the first one of the
\* requested name
FirstPlainMatch(f, j) ==
    /\ StrcmpEqual(PlainExeFsHeader(f)[j].name, CStr(arg))
    /\ \A i \in 1..(j - 1) : ~StrcmpEqual(PlainExeFsHeader(f)[i].name, CStr(arg))

\* LoadSectionExeFS was called on a complete file marked encrypted, for a name
\* that the plaintext directory has, with the first section of that name
\* inside the payload
RoundTripCase ==
    /\ op = "LoadSectionExeFS"
    /\ ncch.file.open /\ ncch.file.hdr = "full" /\ ncch.file.exh = "full"
    /\ ncch.file.dir = "full" /\ ncch.file.header.magic = NCCHMagic
    /\ ~ncch.file.header.no_crypto /\ ncch.file.header.exefs_size # 0
    /\ ncch.ncch_header = ncch.file.header
    /\ (ncch.is_loaded => ncch.exefs_file = ncch.file)
    /\ \E j \in 1..kMaxSections :
          /\ FirstPlainMatch(ncch.file, j)
          /\ WLeq(WAdd(U32LE(PlainExeFsHeader(ncch.file)[j].offset),
                       U32LE(PlainExeFsHeader(ncch.file)[j].size)),
                  WFromInt(Len(ncch.file.payload)))

\* what the round trip promises
RoundTripHolds ==
    /\ ret = "Success"
    /\ ncch.exefs_header = PlainExeFsHeader(ncch.file)
    /\ (ncch.file.header.extended_header_size # 0 =>
            ncch.exheader_header = PlainExHeader(ncch.file))
    /\ \E j \in 1..kMaxSections :
          /\ FirstPlainMatch(ncch.file, j)
          /\ ev.ksSeek = WAdd(U32LE(PlainExeFsHeader(ncch.file)[j].offset),
                              WFromInt(SizeofExeFsHeader))
          /\ out.size = U32LE(PlainExeFsHeader(ncch.file)[j].size)
          /\ out.buf = SubSeq(PlainPayload(ncch.file),
                              WInt(U32LE(PlainExeFsHeader(ncch.file)[j].offset)) + 1,
                              WInt(U32LE(PlainExeFsHeader(ncch.file)[j].offset))
                                 + WInt(U32LE(PlainExeFsHeader(ncch.file)[j].size)))

(* C6: round trip.  For a container marked encrypted whose extended header
   and ExeFS region are CTR encryptions from keystream offset 0 under the
   primary key and the two counters, Load followed by LoadSectionExeFS for a
   section of the plaintext ExeFS header returns Success and the plaintext
   bytes of the section, decrypted with the keystream at section.offset +
   sizeof(ExeFs_Header), and the parsed extended header and ExeFS header are
   the plaintext ones. *)
C6_RoundTrip == RoundTripCase => RoundTripHolds

\* the last method was ReadExtdataId, its Load succeeded and there is an
\* extended header
ExtdataIdRead == op = "ReadExtdataId" /\ ncch.is_loaded /\ ncch.has_exheader

\* the first non-zero of the six identifiers is returned, ErrorNotUsed if none
ReturnsFirstNonZero ==
    IF \A i \in 1..6 : ncch.exheader_header.extdata_ids[i] = 0
    THEN ret = "ErrorNotUsed" /\ ~out.written
    ELSE /\ ret = "Success" /\ out.written
         /\ \E i \in 1..6 :
               /\ ncch.exheader_header.extdata_ids[i] # 0
               /\ \A j \in 1..(i - 1) : ncch.exheader_header.extdata_ids[j] = 0
               /\ out.lo = WFromInt(ncch.exheader_header.extdata_ids[i])
               /\ out.hi = <<0, 0>>

\* the legacy identifier is returned, all 64 bits of it
ReturnsLegacy ==
    /\ ret = "Success" /\ out.written
    /\ out.lo = U64Lo(ncch.exheader_header.ext_save_data_id)
    /\ out.hi = U64Hi(ncch.exheader_header.ext_save_data_id)

(* C7: ReadExtdataId, after a successful Load with an extended header,
   branches on bit 0 of other_attributes: with bit 0 set it returns the
   first non-zero of the six identifiers in index order (ErrorNotUsed if all
   six are zero); with bit 0 clear it returns the legacy identifier,
   whatever the six identifiers are. *)
C7_ExtdataIdBranch ==
    ExtdataIdRead =>
        IF ncch.exheader_header.other_attributes % 2 = 1
        THEN ReturnsFirstNonZero ELSE ReturnsLegacy

\* the last method was a Load that wrote the two counters (step 3)
CountersDerived == op = "Load" /\ ev.ctr /\ ~ncch.ncch_header.no_crypto

(* C8: for a container with the no-crypto flag clear and version 0 or 2, after
   step 3 each counter holds the partition id reversed at indices 0..7, 1
   (extended header) or 2 (ExeFS) at index 8 and zero at indices 9..15. *)
C8_CountersV02 ==
    CountersDerived /\ ncch.ncch_header.version \in {0, 2} =>
        /\ ncch.exheader_ctr =
              [i \in 1..16 |-> IF i <= 8 THEN ncch.ncch_header.partition_id[9 - i]
                               ELSE IF i = 9 THEN 1 ELSE 0]
        /\ ncch.exefs_ctr =
              [i \in 1..16 |-> IF i <= 8 THEN ncch.ncch_header.partition_id[9 - i]
                               ELSE IF i = 9 THEN 2 ELSE 0]

\* the number whose big-endian encoding is the four bytes at indices 12..15
BigEndianAt12(ctr) == <<ctr[13] * 256 + ctr[14], ctr[15] * 256 + ctr[16]>>

(* C9: for a container with the no-crypto flag clear and version 1, after
   step 3 both counters hold the partition id verbatim at indices 0..7,
   indices 12..15 of the extended-header counter encode 0x200 and those of
   the ExeFS counter encode exefs_offset * 512 in big-endian, for every
   32-bit exefs_offset; the ExeFS header is sought at that byte offset. *)
C9_CountersV1 ==
    CountersDerived /\ ncch.ncch_header.version = 1 =>
        /\ \A i \in 1..8 :
              /\ ncch.exheader_ctr[i] = ncch.ncch_header.partition_id[i]
              /\ ncch.exefs_ctr[i] = ncch.ncch_header.partition_id[i]
        /\ BigEndianAt12(ncch.exheader_ctr) = WFromInt(512)
        /\ BigEndianAt12(ncch.exefs_ctr) = WMul(ncch.ncch_header.exefs_offset, 512)
        /\ (ev.seekExefs # NoOffset =>
              ev.seekExefs = WMul(ncch.ncch_header.exefs_offset, 512))

(* C10: the counters held after a Load that executes step 3 for version 0, 1
   or 2 are a function of (partition id, version, ExeFS offset) alone: they
   are the ones a newly constructed decoder derives from the same header. *)
C10_CountersDeterministic ==
    CountersDerived =>
        /\ ncch.exheader_ctr = FindCtr(ncch.ncch_header, ZeroCtr, ZeroCtr).ctrs.exheader_ctr
        /\ ncch.exefs_ctr = FindCtr(ncch.ncch_header, ZeroCtr, ZeroCtr).ctrs.exefs_ctr

(* C11: a method returns ErrorEncrypted only when the outer header just read
   declares an extended header, the container is marked encrypted and steps
   2/3 recorded a failure to decrypt.  A Load that reads an outer header with
   the NCCH magic and no extended header, and whose ExeFS header (if one is
   declared) is read in full, returns Success and leaves the decoder loaded,
   whatever the version and the key store say. *)
C11_EncryptedOnlyWithExHeader ==
    [][ /\ (op' \in LoadingOps /\ ret' = "ErrorEncrypted" =>
              /\ RunsLoadBody
              /\ ncch.file.header.extended_header_size # 0
              /\ ~ncch.file.header.no_crypto /\ ncch'.is_encrypted
              /\ PendingFailure(ncch.file.header, keys))
        /\ (/\ RunsLoadBody /\ op' = "Load"
            /\ ncch.file.header.magic = NCCHMagic
            /\ ncch.file.header.extended_header_size = 0
            /\ (ncch.file.header.exefs_size = 0 \/ ncch.file.dir = "full")
            => ret' = "Success" /\ ncch'.is_loaded)
      ]_vars

\* a Load that succeeded with a failure to decrypt pending: no extended
\* header, an ExeFS header present
C11_Witness ==
    /\ op = "Load" /\ ret = "Success" /\ ncch.is_loaded /\ ev.io # <<>>
    /\ ncch.ncch_header = ncch.file.header
    /\ ncch.ncch_header.extended_header_size = 0
    /\ ~ncch.ncch_header.no_crypto
    /\ PendingFailure(ncch.ncch_header, keys)
    /\ ncch.has_exefs

\* the accessors other than Load
Accessors == LoadingOps \ {"Load"}

(* C12: every accessor runs Load first.  When that Load does not return
   Success, LoadSectionExeFS, ReadProgramId and ReadExtdataId return its error
   and HasExeFS / HasExHeader return false, the output argument is not
   written and the object is as Load left it; when it returns Success and
   the outer header has been read, ReadProgramId returns Success and writes
   both halves of the program id of the stored header. *)
C12_AccessorsPropagate ==
    [][ op' \in Accessors =>
          \E l \in {Load(ncch, keys)} :
             /\ (l.ret # "Success" =>
                   /\ ret' = IF op' \in {"HasExeFS", "HasExHeader"} THEN "false"
                             ELSE l.ret
                   /\ out' = NoOut /\ ncch' = l.n /\ ev' = l.ev /\ keys' = l.keys)
             /\ (l.ret = "Success" /\ l.n.has_header /\ op' = "ReadProgramId" =>
                   /\ ret' = "Success" /\ out'.written
                   /\ out'.hi = WFromInt(l.n.ncch_header.program_id.hi)
                   /\ out'.lo = WFromInt(l.n.ncch_header.program_id.lo))
      ]_vars

\* HasExHeader answering false although the Load it ran had set has_exheader
\* before it failed on the ExeFS header
C12_Witness ==
    /\ op = "HasExHeader" /\ ret = "false" /\ ncch.has_exheader
    /\ ~ncch.is_loaded /\ ev.seekExefs # NoOffset

\* the position at which the buffer d declares its IVFC header, and the
\* position of the level-2 data that follows from it, as exact numbers
DeclaredIVFCOffset(d) == WMul(d.header.romfs_offset, 512)

DeclaredDataOffset(d) ==
    WAdd(DeclaredIVFCOffset(d),
         WFromInt(AlignUp(SizeofIVFCHeader + ReadIVFC(d, DeclaredIVFCOffset(d)).master_hash_size,
                          Pow2(ReadIVFC(d, DeclaredIVFCOffset(d)).levels[3].block_size))))

\* the buffer d holds every region that has to be read, and its IVFC header
\* has the magic and the version
PassesRomFsChecks(d) ==
    /\ d.size >= SizeofNCCHHeader
    /\ WLeq(WAdd(DeclaredIVFCOffset(d), WFromInt(SizeofIVFCHeader)), WFromInt(d.size))
    /\ ReadIVFC(d, DeclaredIVFCOffset(d)).magic = IVFCMagic
    /\ ReadIVFC(d, DeclaredIVFCOffset(d)).version = IVFCVersion
    /\ WLeq(WAdd(DeclaredDataOffset(d),
                 WFromInt(ReadIVFC(d, DeclaredIVFCOffset(d)).levels[3].size)),
            WFromInt(d.size))

(* C13: LoadSharedRomFS on a buffer that holds every region to be read and
   whose IVFC header has the magic and the version returns levels[2].size
   bytes, those at romfs_offset * 512 + AlignUp(sizeof(ivfc) +
   master_hash_size, 2^levels[2].block_size); on any other buffer an
   assertion fails and nothing is returned. *)
C13_SharedRomFS ==
    op = "LoadSharedRomFS" =>
        IF PassesRomFsChecks(arg)
        THEN /\ ret = "Success"
             /\ out.buf = [i \in 1..arg.ivfc.levels[3].size |->
                              DataByte(WInt(DeclaredDataOffset(arg)) + i - 1)]
        ELSE ret = "Abort" /\ ~out.written

(* C14: a loaded decoder has read an outer header with the NCCH magic
   (is_loaded implies has_header); a Load that runs on a file that is not
   open, or whose outer header is cut short, does not return Success; and
   ReadProgramId never returns ErrorNotUsed. *)
C14_LoadedHasHeader ==
    [][ /\ (ncch'.is_loaded => ncch'.has_header)
        /\ (/\ op' = "Load" /\ ~ncch.is_loaded
            /\ (~ncch.file.open \/ ncch.file.hdr # "full")
            => ret' # "Success")
        /\ (op' = "ReadProgramId" => ret' # "ErrorNotUsed")
      ]_vars

(* C15: the cipher runs only with resolved key material.  Whenever the last
   method passed a structure through the cipher, the header of the container
   has the fixed-key flag set or the key store holds the key, and its version
   is 0, 1 or 2; and the key is fetched from the key store only when the key
   store reports it available. *)
C15_CipherOnlyWithKey ==
    /\ (ev.cipher # <<>> => ~PendingFailure(ncch.ncch_header, keys))
    /\ ((\E i \in 1..Len(ev.key) : ev.key[i] = "GetNormalKey") =>
            IsNormalKeyAvailable(keys))

\* this step runs step 4 of Load on a file marked encrypted whose extended
\* header is read in full, with no failure to decrypt pending
DecryptsExHeader ==
    /\ RunsLoadBody /\ ncch.file.header.magic = NCCHMagic
    /\ ~ncch.file.header.no_crypto
    /\ ncch.file.header.extended_header_size # 0 /\ ncch.file.exh = "full"
    /\ ~PendingFailure(ncch.file.header, keys)

(* C16, as claimed: step 4 passes the extended header through the cipher
   first and compares the jump id of the decrypted structure with the
   program id: is_encrypted is cleared exactly when the decrypted jump id
   matches, and the extended header the decoder keeps is the decrypted one. *)
C16_Original ==
    [][ DecryptsExHeader =>
          /\ ev'.cipher # <<>> /\ ev'.cipher[1] = "exheader"
          /\ ncch'.exheader_header =
                CryptExHeader(ncch'.primary_key, ncch'.exheader_ctr, ncch.file.exheader)
          /\ ncch'.is_encrypted = ~JumpIdMatches(ncch'.exheader_header, ncch.file.header)
      ]_vars

(* C16, amended: step 4 compares the jump id of the extended header as read
   with the program id first.  If the low 32 bits are equal it clears
   is_encrypted, passes nothing through the cipher and keeps the bytes as
   read; otherwise it passes the extended header through the cipher (primary
   key, extended-header counter, keystream offset 0) before anything else is
   decrypted, keeps the result and leaves is_encrypted set. *)
C16_CompareThenDecrypt ==
    [][ DecryptsExHeader =>
          IF JumpIdMatches(ncch.file.exheader, ncch.file.header)
          THEN /\ ev'.cipher = <<>> /\ ~ncch'.is_encrypted
               /\ ncch'.exheader_header = ncch.file.exheader
          ELSE /\ ev'.cipher # <<>> /\ ev'.cipher[1] = "exheader"
               /\ ncch'.is_encrypted
               /\ ncch'.exheader_header =
                     CryptExHeader(ncch'.primary_key, ncch'.exheader_ctr,
                                   ncch.file.exheader)
      ]_vars

\* a successful Load that kept the decrypted extended header
C16_Witness ==
    /\ op = "Load" /\ ret = "Success" /\ ncch.is_loaded /\ ncch.has_exheader
    /\ ncch.ncch_header = ncch.file.header
    /\ ~PendingFailure(ncch.ncch_header, keys)
    /\ ev.cipher # <<>> /\ ev.cipher[1] = "exheader" /\ ncch.is_encrypted
    /\ ncch.exheader_header # ncch.file.exheader
    /\ ncch.exheader_header =
          CryptExHeader(ncch.primary_key, ncch.exheader_ctr, ncch.file.exheader)

(* C17: a Load that fails leaves is_loaded false and keeps what the failed
   step would have set: after a failure on the outer header (two calls on the
   file) has_header, has_exheader and has_exefs are unchanged; after a failure
   in step 4 (three calls) has_exheader, has_exefs and the stored extended
   header are unchanged; after a failure in step 5 (the ExeFS offset was
   sought) has_exefs and the stored ExeFS header are unchanged. *)
C17_FailedLoadFrame ==
    [][ op' = "Load" /\ ret' # "Success" =>
          /\ ~ncch'.is_loaded
          /\ (Len(ev'.io) = 2 =>
                /\ ncch'.has_header = ncch.has_header
                /\ ncch'.has_exheader = ncch.has_exheader
                /\ ncch'.has_exefs = ncch.has_exefs)
          /\ (Len(ev'.io) = 3 =>
                /\ ncch'.has_exheader = ncch.has_exheader
                /\ ncch'.has_exefs = ncch.has_exefs
                /\ ncch'.exheader_header = ncch.exheader_header)
          /\ (ev'.seekExefs # NoOffset =>
                /\ ncch'.has_exefs = ncch.has_exefs
                /\ ncch'.exefs_header = ncch.exefs_header)
      ]_vars

(* C18: whenever Load returns Success the decoder describes the file it is
   bound to: has_exheader is true exactly when the outer header of that file
   declares an extended header, has_exefs exactly when it declares an ExeFS,
   and the stored outer header is the one of that file. *)
C18_FlagsDescribeSource ==
    op = "Load" /\ ret = "Success" =>
        /\ ncch.has_exheader = (ncch.file.header.extended_header_size # 0)
        /\ ncch.has_exefs = (ncch.file.header.exefs_size # 0)
        /\ (ncch.file.open /\ ncch.file.hdr = "full" =>
                ncch.ncch_header = ncch.file.header)

\* the first section header whose name equals the requested name
FirstMatch == CHOOSE j \in MatchingSections : \A i \in MatchingSections : j <= i

\* the bytes the ExeFS file delivers to the read of the section found (the
\* first MaxTracked of them)
DeliveredSection ==
    ReadPayload(ncch.exefs_file, ev.seekSection, U32LE(ncch.exefs_header[FirstMatch].size))

(* C19: the errors of LoadSectionExeFS after a successful Load.  With the
   ExeFS file never opened it returns Error for every name, without a seek, a
   read or a write to the buffer.  With a matching section header for which
   the file delivers fewer than section.size bytes it returns Error; when it
   returns Success the buffer holds all section.size bytes, passed through
   the cipher when the container is encrypted.  It returns ErrorNotUsed only
   with the ExeFS file open and no section header of the requested name. *)
C19_SectionErrors ==
    op = "LoadSectionExeFS" /\ ncch.is_loaded =>
        /\ (~ncch.exefs_file.open =>
               /\ ret = "Error" /\ ~out.written
               /\ ev.seekSection = NoOffset /\ ev.ksSeek = NoOffset)
        /\ (ncch.exefs_file.open /\ MatchingSections # {} /\ ev.seekSection # NoOffset =>
               /\ (ReadCount(ncch.exefs_file, ev.seekSection,
                             U32LE(ncch.exefs_header[FirstMatch].size))
                      # U32LE(ncch.exefs_header[FirstMatch].size) => ret = "Error")
               /\ (ret = "Success" =>
                     /\ out.size = U32LE(ncch.exefs_header[FirstMatch].size)
                     /\ Len(out.buf) = Tracked(out.size)
                     /\ out.buf =
                          IF ncch.is_encrypted
                          THEN CryptBuffer(ncch.primary_key, ncch.exefs_ctr,
                                           WAdd(U32LE(ncch.exefs_header[FirstMatch].offset),
                                                WFromInt(SizeofExeFsHeader)),
                                           DeliveredSection)
                          ELSE DeliveredSection))
        /\ (ncch.exefs_file.open /\ MatchingSections # {} =>
               ret \in {"Success", "Error", "Abort"} /\ ev.seekSection # NoOffset)
        /\ (ret = "ErrorNotUsed" => ncch.exefs_file.open /\ MatchingSections = {})

\* a short read: the section found is longer than what the file holds, the
\* buffer was resized to two bytes, one byte was delivered, and Error is
\* returned
C19_Witness ==
    /\ SectionLookedUp /\ ret = "Error" /\ MatchingSections # {}
    /\ out.written /\ out.size = <<0, 2>>
    /\ Len(out.buf) = 1 /\ out.buf[1] # 0

====
